---- MODULE Spec2Model ----
(***************************************************************************)
(* A model of yagc, a Gemini client: the URL grammar (src/src/url.rs), the *)
(* request line (src/src/client/request.rs), the response grammar          *)
(* (src/src/client/response.rs), the trust-on-first-use store and verifier *)
(* (src/src/client/tofu.rs) and the client that connects and sends         *)
(* (src/src/client.rs).                                                    *)
(*                                                                         *)
(* Text is a sequence of one-character strings.  An Option is a sequence   *)
(* of length 0 (None) or 1 (Some).  A nom parser result is a record        *)
(* [st, rest, val] where st is "ok", "error" (nom's recoverable Err::Error,*)
(* which opt, alt and many0/many1 absorb), "incomplete" (Err::Incomplete,  *)
(* which they pass on) or "panic" (the Rust thread unwinds).               *)
(***************************************************************************)
EXTENDS Naturals, Integers, Sequences, FiniteSets, TLC

\* ------------------------------------------------------------------ text

None == <<>>
Some(x) == <<x>>
IsSome(o) == Len(o) = 1
Unwrap(o) == o[1]

Take(s, n) == SubSeq(s, 1, n)
Drop(s, n) == SubSeq(s, n + 1, Len(s))

starts_with(s, t) == Len(t) <= Len(s) /\ Take(s, Len(t)) = t

\* The length of the longest prefix of s whose characters are all in chars.
LenWhileIn(s, chars) ==
    LET stops == {i \in 1..Len(s) : s[i] \notin chars}
    IN  IF stops = {} THEN Len(s)
        ELSE (CHOOSE i \in stops : \A j \in stops : i <= j) - 1

\* The length of the longest prefix of s that has no character of chars.
LenWhileNotIn(s, chars) ==
    LET stops == {i \in 1..Len(s) : s[i] \in chars}
    IN  IF stops = {} THEN Len(s)
        ELSE (CHOOSE i \in stops : \A j \in stops : i <= j) - 1

\* The first index at which t occurs in s, 0 when it does not.
FindSub(s, t) ==
    LET hits == {i \in 1..(Len(s) + 1 - Len(t)) : SubSeq(s, i, i + Len(t) - 1) = t}
    IN  IF hits = {} THEN 0 ELSE CHOOSE i \in hits : \A j \in hits : i <= j

Digits == <<"0", "1", "2", "3", "4", "5", "6", "7", "8", "9">>
DecDigits == {Digits[d] : d \in 1..10}
is_dec_digit(c) == c \in DecDigits
DigitValue(c) == (CHOOSE d \in 1..10 : Digits[d] = c) - 1

\* Rust's Display for an unsigned integer: decimal, no padding.
RECURSIVE ToDecimal(_)
ToDecimal(n) ==
    IF n < 10 THEN <<Digits[n + 1]>>
    ELSE ToDecimal(n \div 10) \o <<Digits[(n % 10) + 1]>>

\* The value of a string of decimal digits.
RECURSIVE FromDecimal(_)
FromDecimal(s) ==
    IF s = <<>> THEN 0
    ELSE 10 * FromDecimal(Take(s, Len(s) - 1)) + DigitValue(s[Len(s)])

\* ------------------------------------------------------ nom combinators

\* The one element of a one-element set.  { e(x) : x \in {v} } binds x to
\* the value of v, evaluated once; The(..) takes the result out.
The(S) == CHOOSE x \in S : TRUE

POk(rest, val) == [st |-> "ok", rest |-> rest, val |-> val]
PFail(kind) == [st |-> kind, rest |-> <<>>, val |-> <<>>]

\* bytes::complete::tag
tag(t, input) ==
    IF starts_with(input, t) THEN POk(Drop(input, Len(t)), t) ELSE PFail("error")

\* bytes::complete::take_while with the predicate "c is none of stops" (the
\* shape of every predicate the code gives it): never fails, may match
\* nothing.
take_while(stops, input) ==
    The({ POk(Drop(input, n), Take(input, n)) : n \in {LenWhileNotIn(input, stops)} })

\* bytes::complete::take_until: the text before the first occurrence of t.
take_until(t, input) ==
    The({ IF i = 0 THEN PFail("error") ELSE POk(Drop(input, i - 1), Take(input, i - 1)) :
          i \in {FindSub(input, t)} })

\* combinator::opt applied to the result of its parser on input.
opt(result, input) ==
    The({ IF r.st = "ok" THEN POk(r.rest, Some(r.val))
          ELSE IF r.st = "error" THEN POk(input, None)
          ELSE r : r \in {result} })

\* character::digit1 is nom's mode-generic parser and the code runs it with
\* Parser::parse, that is in streaming mode: digits that run to the end of
\* the input (or an empty input) are Err::Incomplete; a first character
\* that is no digit is Err::Error.
digit1(input) ==
    The({ IF n = Len(input) THEN PFail("incomplete")
          ELSE IF n = 0 THEN PFail("error")
          ELSE POk(Drop(input, n), Take(input, n)) : n \in {LenWhileIn(input, DecDigits)} })

\* ------------------------------------------------------------------- URL

DEFAULT_PORT == 1965
DEFAULT_PATH == <<"/">>
DEFAULT_SCHEME == "Gemini"
U16_MAX == 65535

T_gemini == <<"g", "e", "m", "i", "n", "i">>
T_about == <<"a", "b", "o", "u", "t">>

Scheme_to_string(scheme) == IF scheme = "Gemini" THEN T_gemini ELSE T_about

Host(name, port) == [name |-> name, port |-> port]

Host_to_string(host) == host.name \o <<":">> \o ToDecimal(host.port)

URL(scheme, host, path, query) ==
    [scheme |-> scheme, host |-> host, path |-> path, query |-> query]

URL_to_string(url) ==
    LET uri1 == Scheme_to_string(url.scheme) \o <<":">>
        uri2 == IF IsSome(url.host)
                THEN uri1 \o <<"/", "/">> \o Host_to_string(Unwrap(url.host))
                ELSE uri1
        uri3 == IF ~starts_with(url.path, <<"/">>) THEN uri2 \o <<"/">> ELSE uri2
        uri4 == uri3 \o url.path
    IN  IF IsSome(url.query) THEN uri4 \o <<"?">> \o Unwrap(url.query) ELSE uri4

\* URLBuilder: new() and the setters; build() supplies the default path.
URLBuilder_new == [scheme |-> DEFAULT_SCHEME, host |-> None, path |-> None, query |-> None]
URLBuilder_scheme(b, scheme) == [b EXCEPT !.scheme = scheme]
URLBuilder_host(b, host) == [b EXCEPT !.host = Some(host)]
URLBuilder_path(b, path) == [b EXCEPT !.path = Some(path)]
URLBuilder_query(b, query) == [b EXCEPT !.query = Some(query)]
URLBuilder_build(b) ==
    URL(b.scheme, b.host, IF IsSome(b.path) THEN Unwrap(b.path) ELSE DEFAULT_PATH, b.query)

URL_scheme(input) ==
    The({ IF scheme.st # "ok" THEN scheme
          ELSE The({ IF c.st # "ok" THEN c
                     ELSE POk(c.rest, IF scheme.val = T_gemini THEN "Gemini" ELSE "About") :
                     c \in {tag(<<":">>, scheme.rest)} }) :
          scheme \in {The({ IF g.st = "ok" THEN g ELSE tag(T_about, input) :
                           g \in {tag(T_gemini, input)} })} })

\* The characters that end a take_while of hostname, and of path.
HostDelims == {".", "/", ":"}
PathDelims == {"/", "?", ":"}

\* many0(preceded(tag(sep), take_while(..))): the parts matched, each pushed
\* after its separator as the map closures of hostname and path do.
RECURSIVE SepParts(_, _, _, _)
SepParts(sep, stops, input, acc) ==
    The({ IF t.st # "ok" THEN POk(input, acc)
          ELSE The({ SepParts(sep, stops, w.rest, acc \o <<sep>> \o w.val) :
                     w \in {take_while(stops, t.rest)} }) :
          t \in {tag(<<sep>>, input)} })

URL_hostname(input) ==
    The({ The({ \* many1: at least one "." part
                IF parts.val = <<>> THEN PFail("error")
                ELSE POk(parts.rest, part.val \o parts.val) :
                parts \in {SepParts(".", HostDelims, part.rest, <<>>)} }) :
          part \in {take_while(HostDelims, input)} })

URL_port(input) ==
    The({ IF d.st # "ok" THEN d
          ELSE The({ IF port > U16_MAX THEN PFail("panic")  \* parse::<u16>().unwrap()
                     ELSE POk(d.rest, port) : port \in {FromDecimal(d.val)} }) :
          d \in {digit1(input)} })

\* preceded(tag(":"), Self::port)
URL_colon_port(input) ==
    The({ IF c.st = "ok" THEN URL_port(c.rest) ELSE c : c \in {tag(<<":">>, input)} })

URL_host(input) ==
    The({ IF s.st # "ok" THEN s
          ELSE The({ IF hostname.st # "ok" THEN hostname
                     ELSE The({ IF port.st # "ok" THEN port
                                ELSE POk(port.rest,
                                         Host(hostname.val,
                                              IF IsSome(port.val) THEN Unwrap(port.val)
                                              ELSE DEFAULT_PORT)) :
                                port \in {opt(URL_colon_port(hostname.rest), hostname.rest)} }) :
                     hostname \in {URL_hostname(s.rest)} }) :
          s \in {tag(<<"/", "/">>, input)} })

URL_query(input) ==
    The({ IF q.st # "ok" THEN q ELSE take_while({}, q.rest) : q \in {tag(<<"?">>, input)} })

URL_path(input) ==
    The({ The({ POk(parts.rest, part.val \o parts.val) :
                parts \in {SepParts("/", PathDelims, part.rest, <<>>)} }) :
          part \in {take_while(PathDelims, input)} })

\* str::splitn(2, '/'): the text before the first '/', and the text after it.
Splitn2(path) ==
    The({ IF i = 0 THEN <<path>> ELSE <<Take(path, i - 1), Drop(path, i)>> :
          i \in {FindSub(path, <<"/">>)} })

\* The closure URL::url maps over what the four parsers matched.
URL_from_parts(scheme, host, path, query) ==
    The({ URLBuilder_build(IF IsSome(query) THEN URLBuilder_query(b2, Unwrap(query)) ELSE b2) :
          b2 \in {
            The({ IF /\ ~IsSome(scheme) /\ ~IsSome(host)
                     /\ path # <<>> /\ ~starts_with(path, <<"/">>)
                  THEN \* no scheme and no host: the leading segment is the host
                       The({ URLBuilder_path(
                                 URLBuilder_host(b1, Host(parts[1], DEFAULT_PORT)),
                                 IF Len(parts) > 1 THEN <<"/">> \o parts[2] ELSE <<"/">>) :
                             parts \in {Splitn2(path)} })
                  ELSE The({ IF path # <<>> THEN URLBuilder_path(b1h, path) ELSE b1h :
                             b1h \in {IF IsSome(host) THEN URLBuilder_host(b1, Unwrap(host))
                                      ELSE b1} }) :
                  b1 \in {IF IsSome(scheme) THEN URLBuilder_scheme(URLBuilder_new, Unwrap(scheme))
                          ELSE URLBuilder_new} }) } })

\* (opt(scheme), opt(host), path, opt(query)), then the closure.
URL_url(input) ==
    The({ IF scheme.st # "ok" THEN scheme ELSE
      The({ IF host.st # "ok" THEN host ELSE
        The({ IF path.st # "ok" THEN path ELSE
          The({ IF query.st # "ok" THEN query
                ELSE POk(query.rest,
                         URL_from_parts(scheme.val, host.val, path.val, query.val)) :
                query \in {opt(URL_query(path.rest), path.rest)} }) :
              path \in {URL_path(host.rest)} }) :
            host \in {opt(URL_host(scheme.rest), scheme.rest)} }) :
          scheme \in {opt(URL_scheme(input), input)} })

\* A try_from that takes what was matched and lets the rest go.
URL_try_from_partial(value) ==
    The({ IF r.st = "panic" THEN [st |-> "panic", val |-> <<>>]
          ELSE IF r.st # "ok" THEN [st |-> "err", val |-> <<>>]
          ELSE [st |-> "ok", val |-> r.val] : r \in {URL_url(value)} })

\* TryFrom<&str> for URL: [st |-> "ok", val |-> url], or st "err" (the Err
\* value) or "panic".
URL_try_from(value) ==
    The({ IF r.st = "panic" THEN [st |-> "panic", val |-> <<>>]
          ELSE IF r.st # "ok" THEN [st |-> "err", val |-> <<>>]
          ELSE IF r.rest # <<>> THEN [st |-> "err", val |-> <<>>]
          ELSE [st |-> "ok", val |-> r.val] : r \in {URL_url(value)} })

\* --------------------------------------------------------------- Request

MAX_REQUEST_BYTES == 1024
CRLF == <<"\r", "\n">>

Request_to_string(request) == URL_to_string(request) \o CRLF

Request_is_valid_length(request) == Len(URL_to_string(request)) <= MAX_REQUEST_BYTES

\* -------------------------------------------------------------- Response

T_text_plain == <<"t", "e", "x", "t", "/", "p", "l", "a", "i", "n">>
T_text_gemini == <<"t", "e", "x", "t", "/", "g", "e", "m", "i", "n", "i">>
T_utf8 == <<"u", "t", "f", "-", "8">>
T_us_ascii == <<"u", "s", "-", "a", "s", "c", "i", "i">>
T_charset == <<";", "c", "h", "a", "r", "s", "e", "t", "=">>

MimeTypeType_to_string(t) == IF t = "TextPlain" THEN T_text_plain ELSE T_text_gemini
Charset_to_string(c) == IF c = "Utf8" THEN T_utf8 ELSE T_us_ascii

\* A MimeType::new whose default charset is us-ascii.
MimeType_new_ascii(mime_type, charset) ==
    [mime_type |-> mime_type, charset |-> IF IsSome(charset) THEN Unwrap(charset) ELSE "UsAscii"]

\* MimeType::new: the charset defaults to utf-8.
MimeType_new(mime_type, charset) ==
    [mime_type |-> mime_type, charset |-> IF IsSome(charset) THEN Unwrap(charset) ELSE "Utf8"]

\* A to_string that leaves the charset out.
MimeType_to_string_bare(m) == MimeTypeType_to_string(m.mime_type)

MimeType_to_string(m) ==
    MimeTypeType_to_string(m.mime_type) \o T_charset \o Charset_to_string(m.charset)

\* The variants that carry one text (prompt, url or information), in the
\* order of the enum, and Success, which carries a MIME type and a body.
TextVariants ==
    <<"Input", "SensitiveInput", "TemporaryRedirect", "PermanentRedirect",
      "TemporaryFailure", "ServerUnavailable", "CGIError", "ProxyError", "SlowDown",
      "PermanentFailure", "NotFound", "Gone", "ProxyRequestRefused", "BadRequest",
      "ClientCertificateRequired", "CertificateNotAuthorized", "CertificateNotValid">>

TextResponse(variant, text) == [variant |-> variant, text |-> text]
Success(body_mime_type, body) ==
    [variant |-> "Success", body_mime_type |-> body_mime_type, body |-> body]

\* The status code Response::to_string writes for each variant.
ResponseCode(variant) ==
    CASE variant = "Input" -> 10
      [] variant = "SensitiveInput" -> 11
      [] variant = "Success" -> 20
      [] variant = "TemporaryRedirect" -> 30
      [] variant = "PermanentRedirect" -> 31
      [] variant = "TemporaryFailure" -> 40
      [] variant = "ServerUnavailable" -> 41
      [] variant = "CGIError" -> 42
      [] variant = "ProxyError" -> 43
      [] variant = "SlowDown" -> 44
      [] variant = "PermanentFailure" -> 50
      [] variant = "NotFound" -> 51
      [] variant = "Gone" -> 52
      [] variant = "ProxyRequestRefused" -> 53
      [] variant = "BadRequest" -> 59
      [] variant = "ClientCertificateRequired" -> 60
      [] variant = "CertificateNotAuthorized" -> 61
      [] variant = "CertificateNotValid" -> 62

format_response(response_code, response_meta, body) ==
    ToDecimal(response_code) \o <<" ">> \o response_meta \o CRLF \o body

Response_to_string(r) ==
    IF r.variant = "Success"
    THEN format_response(ResponseCode(r.variant), MimeType_to_string(r.body_mime_type), r.body)
    ELSE format_response(ResponseCode(r.variant), r.text, <<>>)

\* alt((tag(c1), tag(c2), ...)): the first of the codes that the input
\* starts with.
RECURSIVE AltTags(_, _)
AltTags(codes, input) ==
    IF codes = <<>> THEN PFail("error")
    ELSE LET t == tag(Head(codes), input)
         IN  IF t.st = "ok" THEN t ELSE AltTags(Tail(codes), input)

\* The body shared by the parsers of the one-line responses: a code out of
\* codes, a space, the text up to the first CRLF, and that CRLF.
CodeLine(codes, input) ==
    LET code == AltTags(codes, input)
        sp == IF code.st = "ok" THEN tag(<<" ">>, code.rest) ELSE code
        text == IF sp.st = "ok" THEN take_until(CRLF, sp.rest) ELSE sp
        nl == IF text.st = "ok" THEN tag(CRLF, text.rest) ELSE text
    IN  IF nl.st # "ok" THEN nl ELSE POk(nl.rest, <<code.val, text.val>>)

\* The match on response_code that ends each of those parsers.
Matched(line, codes, variants) ==
    IF line.st # "ok" THEN line
    ELSE LET i == CHOOSE j \in 1..Len(codes) : codes[j] = line.val[1]
         IN  POk(line.rest, TextResponse(variants[i], line.val[2]))

Response_input_expected(input) ==
    LET codes == <<<<"1", "0">>, <<"1", "1">>>>
    IN  Matched(CodeLine(codes, input), codes, <<"Input", "SensitiveInput">>)

Response_charset(input) ==
    LET c == AltTags(<<T_utf8, T_us_ascii>>, input)
    IN  IF c.st # "ok" THEN c
        ELSE POk(c.rest, IF c.val = T_utf8 THEN "Utf8" ELSE "UsAscii")

Response_mime_type(input) ==
    LET mime_type == AltTags(<<T_text_plain, T_text_gemini>>, input)
        p == IF mime_type.st = "ok" THEN tag(T_charset, mime_type.rest) ELSE mime_type
        charset == IF mime_type.st = "ok"
                   THEN opt(IF p.st = "ok" THEN Response_charset(p.rest) ELSE p,
                            mime_type.rest)
                   ELSE mime_type
    IN  IF charset.st # "ok" THEN charset
        ELSE POk(charset.rest,
                 MimeType_new(IF mime_type.val = T_text_plain THEN "TextPlain"
                              ELSE "TextGemini", charset.val))

Response_success(input) ==
    LET t == tag(<<"2", "0", " ">>, input)
        body_mime_type == IF t.st = "ok" THEN Response_mime_type(t.rest) ELSE t
        nl == IF body_mime_type.st = "ok" THEN tag(CRLF, body_mime_type.rest)
              ELSE body_mime_type
    IN  IF nl.st # "ok" THEN nl
        ELSE POk(<<>>, Success(body_mime_type.val, nl.rest))

Response_temporary_redirect(input) ==
    LET codes == <<<<"3", "0">>, <<"3", "1">>>>
    IN  Matched(CodeLine(codes, input), codes, <<"TemporaryRedirect", "PermanentRedirect">>)

Response_temporary_failure(input) ==
    LET codes == <<<<"4", "0">>, <<"4", "1">>, <<"4", "2">>, <<"4", "3">>, <<"4", "4">>>>
    IN  Matched(CodeLine(codes, input), codes,
                <<"TemporaryFailure", "ServerUnavailable", "CGIError", "ProxyError",
                  "SlowDown">>)

Response_permanent_failure(input) ==
    LET codes == <<<<"5", "0">>, <<"5", "1">>, <<"5", "2">>, <<"5", "3">>, <<"5", "9">>>>
    IN  Matched(CodeLine(codes, input), codes,
                <<"PermanentFailure", "NotFound", "Gone", "ProxyRequestRefused",
                  "BadRequest">>)

\* A parser of the 6x responses that takes 70 for the last of them.
Response_client_certificate_required_lenient(input) ==
    LET codes == <<<<"6", "0">>, <<"6", "1">>, <<"6", "2">>, <<"7", "0">>>>
    IN  Matched(CodeLine(codes, input), codes,
                <<"ClientCertificateRequired", "CertificateNotAuthorized",
                  "CertificateNotValid", "CertificateNotValid">>)

Response_client_certificate_required(input) ==
    LET codes == <<<<"6", "0">>, <<"6", "1">>, <<"6", "2">>>>
    IN  Matched(CodeLine(codes, input), codes,
                <<"ClientCertificateRequired", "CertificateNotAuthorized",
                  "CertificateNotValid">>)

\* alt over the six parsers, in the order of the code.
Response_from_str(input) ==
    LET r1 == Response_input_expected(input)
        r2 == Response_success(input)
        r3 == Response_temporary_redirect(input)
        r4 == Response_temporary_failure(input)
        r5 == Response_permanent_failure(input)
    IN  IF r1.st # "error" THEN r1
        ELSE IF r2.st # "error" THEN r2
        ELSE IF r3.st # "error" THEN r3
        ELSE IF r4.st # "error" THEN r4
        ELSE IF r5.st # "error" THEN r5
        ELSE Response_client_certificate_required(input)

\* A try_from that lets go what follows the response.
Response_try_from_partial(input) ==
    LET r == Response_from_str(input)
    IN  IF r.st # "ok" THEN [st |-> "err", val |-> <<>>]
        ELSE [st |-> "ok", val |-> r.val]

\* TryFrom<&str> for Response: [st |-> "ok", val |-> response] or st "err".
Response_try_from(input) ==
    LET r == Response_from_str(input)
    IN  IF r.st # "ok" THEN [st |-> "err", val |-> <<>>]
        ELSE IF r.rest # <<>> THEN [st |-> "err", val |-> <<>>]
        ELSE [st |-> "ok", val |-> r.val]

\* ------------------------------------------------------------ TOFU store

\* The file at the store's path: no file, a file holding a serialized store
\* (its known_hosts), or a file cut short by a failed write.
NoFile == [kind |-> "none", known_hosts |-> <<>>]
StoreFile(known_hosts) == [kind |-> "store", known_hosts |-> known_hosts]
Truncated == [kind |-> "truncated", known_hosts |-> <<>>]

\* What a write of the file can do: "ok"; "create_err", File::create fails
\* and the file is as before; "write_err", the file was created (emptied)
\* and serializing into it failed; "flush_lost", the file was created and
\* the bytes still buffered in the BufWriter are lost when it is dropped,
\* which reports nothing.
DiskOutcomes == {"ok", "create_err", "write_err", "flush_lost"}

\* HashMap::insert
insert(known_hosts, hostname, fingerprint) ==
    [h \in (DOMAIN known_hosts) \cup {hostname} |->
        IF h = hostname THEN fingerprint ELSE known_hosts[h]]

\* TofuStore::save_to_disk: the Result and the file afterwards.
save_to_disk(known_hosts, file, outcome) ==
    CASE outcome = "ok" -> [res |-> "Ok", file |-> StoreFile(known_hosts)]
      [] outcome = "create_err" -> [res |-> "Err", file |-> file]
      [] outcome = "write_err" -> [res |-> "Err", file |-> Truncated]
      [] outcome = "flush_lost" -> [res |-> "Ok", file |-> Truncated]

\* TofuStore::learn_host: insert, then save.
learn_host(known_hosts, file, hostname, fingerprint, outcome) ==
    LET learned == insert(known_hosts, hostname, fingerprint)
        saved == save_to_disk(learned, file, outcome)
    IN  [res |-> saved.res, known_hosts |-> learned, file |-> saved.file]

\* A verify_host that takes a changed fingerprint for an unknown host.
verify_host_relearning(known_hosts, hostname, claimed_fingerprint) ==
    IF hostname \in DOMAIN known_hosts /\ known_hosts[hostname] = claimed_fingerprint
    THEN "Match"
    ELSE "Unknown"

\* TofuStore::verify_host
verify_host(known_hosts, hostname, claimed_fingerprint) ==
    IF hostname \in DOMAIN known_hosts
    THEN IF known_hosts[hostname] = claimed_fingerprint THEN "Match" ELSE "Mismatch"
    ELSE "Unknown"

\* TofuStore::verify_or_learn_host: the result ("Match", "Mismatch", "New",
\* or "Err" for Err(_)), the store's map and the file afterwards.
verify_or_learn_host(known_hosts, file, hostname, claimed_fingerprint, outcome) ==
    LET v == verify_host(known_hosts, hostname, claimed_fingerprint)
    IN  IF v = "Unknown"
        THEN LET l == learn_host(known_hosts, file, hostname, claimed_fingerprint, outcome)
             IN  [result |-> IF l.res = "Ok" THEN "New" ELSE "Err",
                  known_hosts |-> l.known_hosts, file |-> l.file]
        ELSE [result |-> v, known_hosts |-> known_hosts, file |-> file]

\* A load_from_disk that starts empty on a file it cannot parse.
load_from_disk_lenient(file) ==
    [st |-> "Ok", known_hosts |-> IF file.kind = "store" THEN file.known_hosts ELSE <<>>]

\* TofuStore::load_from_disk: File::open(path).unwrap() and
\* serde_json::from_reader(reader).unwrap() panic on a file that is not
\* there or does not parse.
load_from_disk(file) ==
    IF file.kind = "store" THEN [st |-> "Ok", known_hosts |-> file.known_hosts]
    ELSE [st |-> "Panic", known_hosts |-> <<>>]

\* TofuStore::new(path); ends_with_json: whether path ends with ".json".
\* The Result ("Ok", "Err", or "Panic" when the call unwinds) and the
\* known_hosts of the store returned.
TofuStore_new(ends_with_json, file) ==
    IF ~ends_with_json THEN [st |-> "Err", known_hosts |-> <<>>]
    ELSE IF file.kind # "none" THEN load_from_disk(file)
    ELSE [st |-> "Ok", known_hosts |-> <<>>]

\* ---------------------------------------------------------- TOFU verifier

\* hex::encode(Sha256::digest(cert)): the certificates of the model and
\* their fingerprints.
Certs == {"certA", "certB"}
Fingerprint(cert) == IF cert = "certA" THEN "a1f0" ELSE "b2e9"
Fingerprints == {Fingerprint(c) : c \in Certs}

\* ServerName::try_from(hostname) of rustls-pki-types: a name of digits and
\* dots only is no DNS name, and is an IP address when it has four parts;
\* a name with an empty label or a character outside the DNS alphabet is
\* an error.
DnsChars == {"a", "b", "c", "d", "e", "-", "_", "."} \cup DecDigits
NumericChars == DecDigits \cup {"."}
ServerName_try_from(hostname) ==
    LET dots == {i \in 1..Len(hostname) : hostname[i] = "."}
        emptyLabel == \/ hostname = <<>>
                      \/ hostname[1] = "."
                      \/ \E i \in dots : (i + 1) \in dots
    IN  IF emptyLabel \/ LenWhileIn(hostname, DnsChars) # Len(hostname) THEN "Err"
        ELSE IF LenWhileIn(hostname, NumericChars) # Len(hostname) THEN "DnsName"
        ELSE IF Cardinality(dots) = 3 /\ hostname[Len(hostname)] # "." THEN "IpAddress"
        ELSE "Err"

\* The match that ends verify_server_cert: which results of
\* verify_or_learn_host let the handshake go on.
ServerCertVerified(result) == IF result \in {"Match", "New"} THEN "accept" ELSE "reject"

\* TofuVerifier::verify_server_cert, under the write lock of the verifier's
\* own store: the verdict, the store's answer ("none" when it was not
\* asked), the verifier's map and the file afterwards.
verify_server_cert(known_hosts, file, end_entity, hostname, outcome) ==
    IF ServerName_try_from(hostname) # "DnsName"
    THEN [verdict |-> "reject", tofu |-> "none", known_hosts |-> known_hosts, file |-> file]
    ELSE LET r == verify_or_learn_host(known_hosts, file, hostname,
                                       Fingerprint(end_entity), outcome)
         IN  [verdict |-> ServerCertVerified(r.result), tofu |-> r.result,
              known_hosts |-> r.known_hosts, file |-> r.file]

\* ----------------------------------------------------------------- state

VARIABLES
    disk,        \* the file known_hosts.json (the file at the store's path)
    tofu_store,  \* Client.tofu_store: its known_hosts
    conn,        \* per connection: the establish_tls_connection / send_request call
    store,       \* a TofuStore used on its own: its known_hosts
    call,        \* the last verify_or_learn_host call on store, and its result
    opened,      \* the TofuStore::new call that made store, and its result
    learned,     \* history: the fingerprint store answered New for, per hostname
    urlRun,      \* a text taken through URL::try_from, to_string and try_from
    respRun      \* a Response or a text taken through to_string and try_from

vars == <<disk, tofu_store, conn, store, call, opened, learned, urlRun, respRun>>

Off == [pc |-> "off"]
NoCall == [hostname |-> <<>>, fingerprint |-> "none", prior |-> <<>>, file |-> NoFile,
           saved |-> "none", result |-> "none"]
NotOpened == [ends_with_json |-> TRUE, file |-> NoFile, result |-> "none",
              known_hosts |-> <<>>]

HostA == <<"a", ".", "b">>
HostC == <<"c", ".", "d">>
HostIp == <<"1", ".", "2", ".", "3", ".", "4">>

\* Every map from some of the hostnames hs to a fingerprint.
KnownHostsOver(hs) ==
    UNION {[d -> Fingerprints] : d \in SUBSET hs}

\* ------------------------------------------- a trust store used on its own

StoreHosts == {HostA, HostC}

\* TofuStore::new(path) has run: there was no file, or a well-formed one.
InitStore ==
    /\ disk \in {NoFile} \cup {StoreFile(m) : m \in KnownHostsOver(StoreHosts)}
    /\ store = TofuStore_new(TRUE, disk).known_hosts
    /\ call = NoCall
    /\ opened = [ends_with_json |-> TRUE, file |-> disk, result |-> "Ok",
                 known_hosts |-> store]
    /\ learned = <<>>
    /\ tofu_store = <<>>
    /\ conn = <<>>
    /\ urlRun = Off
    /\ respRun = Off

\* One call store.verify_or_learn_host(hostname, fingerprint); outcome is
\* what the write of the file does, should the call write.
VerifyOrLearn(hostname, fingerprint, outcome) ==
    LET r == verify_or_learn_host(store, disk, hostname, fingerprint, outcome)
        wrote == hostname \notin DOMAIN store
    IN  /\ opened.result = "Ok"
        /\ wrote \/ outcome = "ok"
        /\ store' = r.known_hosts
        /\ disk' = r.file
        /\ call' = [hostname |-> hostname, fingerprint |-> fingerprint, prior |-> store,
                    file |-> disk,
                    saved |-> IF wrote THEN outcome ELSE "none", result |-> r.result]
        /\ learned' = IF r.result = "New" /\ hostname \notin DOMAIN learned
                      THEN insert(learned, hostname, fingerprint)
                      ELSE learned
        /\ UNCHANGED <<tofu_store, conn, opened, urlRun, respRun>>

\* The store is given up and TofuStore::new(path) is called on the file as
\* it is now; when the call fails there is no store to call.
NewStore(ends_with_json) ==
    LET r == TofuStore_new(ends_with_json, disk)
    IN  /\ store' = r.known_hosts
        /\ opened' = [ends_with_json |-> ends_with_json, file |-> disk, result |-> r.st,
                      known_hosts |-> r.known_hosts]
        /\ call' = NoCall
        /\ learned' = <<>>
        /\ UNCHANGED <<disk, tofu_store, conn, urlRun, respRun>>

NextStore ==
    \/ \E h \in StoreHosts, f \in Fingerprints, o \in DiskOutcomes : VerifyOrLearn(h, f, o)
    \/ \E ends_with_json \in BOOLEAN : NewStore(ends_with_json)

SpecStore == InitStore /\ [][NextStore]_vars

\* ------------------------------------------------------------ the client

\* Two calls of establish_tls_connection on one Client, in sequence or at
\* once: connections meet only in the file, so every property below is one
\* of a connection or of a pair of them.
Conns == {1, 2}

\* The URL of host a.b whose serialized form has `total` bytes: its path is
\* "/" and then as many "a" as that takes.
PaddedURL(total) ==
    LET base == URLBuilder_build(URLBuilder_host(URLBuilder_new, Host(HostA, DEFAULT_PORT)))
        pad == total - Len(URL_to_string(base))
    IN  URLBuilder_build(URLBuilder_path(
            URLBuilder_host(URLBuilder_new, Host(HostA, DEFAULT_PORT)),
            <<"/">> \o [i \in 1..pad |-> "a"]))

\* The URLs a caller asks for: two hosts by their DNS names, a host by its
\* IP address, a URL with no host, and two URLs around the length limit.
ClientURLs ==
    { URLBuilder_build(URLBuilder_host(URLBuilder_new, Host(HostA, DEFAULT_PORT))),
      URLBuilder_build(URLBuilder_host(URLBuilder_new, Host(HostC, DEFAULT_PORT))),
      URLBuilder_build(URLBuilder_host(URLBuilder_new, Host(HostIp, DEFAULT_PORT))),
      URL("About", None, <<"x">>, None),
      PaddedURL(MAX_REQUEST_BYTES),
      PaddedURL(MAX_REQUEST_BYTES + 1) }

\* What the server sends back before it closes: a response and a text that
\* is none.
ServerTexts ==
    { <<"2", "0", " ">> \o T_text_gemini \o CRLF \o <<"h", "i">>,
      <<"7", "0", " ", "x">> \o CRLF }

ConnIdle ==
    [pc |-> "idle", url |-> None, after |-> {}, tcp |-> FALSE, verifier |-> <<>>,
     presented |-> "none", saved |-> "none", tofu |-> "none", verdict |-> "none",
     wire |-> <<>>,
     established |-> "none", sent |-> "none", cause |-> "none"]

\* Client::new has run: TofuStore::new loaded known_hosts.json.
Init ==
    /\ disk \in {NoFile, StoreFile(<<>>)}
                \cup {StoreFile(insert(<<>>, HostA, f)) : f \in Fingerprints}
    /\ tofu_store = TofuStore_new(TRUE, disk).known_hosts
    /\ conn = [c \in Conns |-> ConnIdle]
    /\ store = <<>>
    /\ call = NoCall
    /\ opened = NotOpened
    /\ learned = <<>>
    /\ urlRun = Off
    /\ respRun = Off

Returned(c) == conn[c].established # "none"

\* establish_tls_connection is called: without a host it returns at once;
\* with one, the verifier is built from a clone of the client's store.
\* after: history, the calls that had returned by then.
Establish(c, url) ==
    /\ conn[c].pc = "idle"
    /\ conn' = [conn EXCEPT ![c] =
          IF ~IsSome(url.host)
          THEN [@ EXCEPT !.pc = "closed", !.url = Some(url),
                         !.after = {d \in Conns : Returned(d)},
                         !.established = "FailedToResolveHostAddress",
                         !.cause = "no_host"]
          ELSE [@ EXCEPT !.pc = "connecting", !.url = Some(url),
                         !.after = {d \in Conns : Returned(d)},
                         !.verifier = tofu_store]]
    /\ UNCHANGED <<disk, tofu_store, store, call, opened, learned, urlRun, respRun>>

HostnameOf(c) == Unwrap(Unwrap(conn[c].url).host).name

\* TcpStream::connect, then ServerName::try_from(hostname).
TcpConnect(c, ok) ==
    /\ conn[c].pc = "connecting"
    /\ conn' = [conn EXCEPT ![c] =
          IF ~ok
          THEN [@ EXCEPT !.pc = "closed", !.established = "FailedToConnectToHost",
                         !.cause = "tcp"]
          ELSE IF ServerName_try_from(HostnameOf(c)) = "Err"
          THEN [@ EXCEPT !.pc = "closed", !.tcp = TRUE,
                         !.established = "FailedToConnectToHost",
                         !.cause = "server_name"]
          ELSE [@ EXCEPT !.pc = "handshake", !.tcp = TRUE]]
    /\ UNCHANGED <<disk, tofu_store, store, call, opened, learned, urlRun, respRun>>

\* In connector.connect: the server presents its certificate and rustls
\* calls the verifier of this connection.  saved: history, what the write
\* of the file did, "none" when the call wrote nothing.
VerifyCert(c, cert, outcome) ==
    LET v == verify_server_cert(conn[c].verifier, disk, cert, HostnameOf(c), outcome)
        wrote == v.tofu \in {"New", "Err"}
    IN  /\ conn[c].pc = "handshake"
        /\ wrote \/ outcome = "ok"
        /\ conn' = [conn EXCEPT ![c] =
              [@ EXCEPT !.pc = "verified", !.verifier = v.known_hosts,
                        !.presented = Fingerprint(cert),
                        !.saved = IF wrote THEN outcome ELSE "none",
                        !.tofu = v.tofu, !.verdict = v.verdict]]
        /\ disk' = v.file
        /\ UNCHANGED <<tofu_store, store, call, opened, learned, urlRun, respRun>>

\* connector.connect returns: an error when the verifier rejected (or the
\* handshake failed for a reason of its own, before or after the
\* certificate), else the TlsConnection.
FinishHandshake(c, tls_ok) ==
    /\ conn[c].pc \in {"handshake", "verified"}
    /\ conn[c].pc = "handshake" => ~tls_ok
    /\ conn' = [conn EXCEPT ![c] =
          IF conn[c].verdict = "reject"
          THEN [@ EXCEPT !.pc = "closed", !.established = "FailedToConnectToHost",
                         !.cause = "trust"]
          ELSE IF ~tls_ok
          THEN [@ EXCEPT !.pc = "closed", !.established = "FailedToConnectToHost",
                         !.cause = "tls"]
          ELSE [@ EXCEPT !.pc = "open", !.established = "Ok"]]
    /\ UNCHANGED <<disk, tofu_store, store, call, opened, learned, urlRun, respRun>>

\* send_request(Request(url), connection), up to the write: the length
\* check, then write_all of the request line.
SendRequest(c, write_ok) ==
    LET request == Unwrap(conn[c].url)
    IN  /\ conn[c].pc = "open"
        /\ conn' = [conn EXCEPT ![c] =
              IF ~Request_is_valid_length(request)
              THEN [@ EXCEPT !.pc = "closed", !.sent = "RequestTooLong",
                             !.cause = "too_long"]
              ELSE IF ~write_ok
              THEN [@ EXCEPT !.pc = "closed", !.sent = "FailedToConnectToHost",
                             !.cause = "write"]
              ELSE [@ EXCEPT !.pc = "sent", !.wire = Request_to_string(request)]]
        /\ UNCHANGED <<disk, tofu_store, store, call, opened, learned, urlRun, respRun>>

\* The rest of send_request: read_to_end, then Response::try_from.
ReadResponse(c, read_ok, text) ==
    /\ conn[c].pc = "sent"
    /\ conn' = [conn EXCEPT ![c] =
          IF ~read_ok
          THEN [@ EXCEPT !.pc = "closed", !.sent = "FailedToReadResponse", !.cause = "read"]
          ELSE IF Response_try_from(text).st # "ok"
          THEN [@ EXCEPT !.pc = "closed", !.sent = "FailedToReadResponse", !.cause = "parse"]
          ELSE [@ EXCEPT !.pc = "closed", !.sent = "Ok"]]
    /\ UNCHANGED <<disk, tofu_store, store, call, opened, learned, urlRun, respRun>>

Next ==
    \E c \in Conns :
        \/ \E url \in ClientURLs : Establish(c, url)
        \/ \E ok \in BOOLEAN : TcpConnect(c, ok)
        \/ \E cert \in Certs, o \in DiskOutcomes : VerifyCert(c, cert, o)
        \/ \E tls_ok \in BOOLEAN : FinishHandshake(c, tls_ok)
        \/ \E write_ok \in BOOLEAN : SendRequest(c, write_ok)
        \/ \E read_ok \in BOOLEAN, text \in ServerTexts : ReadResponse(c, read_ok, text)

Spec == Init /\ [][Next]_vars

\* ------------------------------------------------- the URL grammar, run

\* How many "/p" segments the paths of the texts have at most.
MaxSegments == 2

RECURSIVE Segments(_)
Segments(k) == IF k = 0 THEN <<>> ELSE <<"/", "p">> \o Segments(k - 1)

URLSchemeTexts ==
    { <<>>, T_gemini \o <<":">>, T_about \o <<":">>, <<"n", "o", "o", "o", ":">> }
URLAuthorityTexts ==
    { <<>>, <<"/", "/">> \o HostA, <<"/", "/", "a">>, <<"/", "/", ".">>,
      <<"/", "/">> \o HostA \o <<":", "7">>,
      <<"/", "/">> \o HostA \o <<":", "7", "0", "0", "0", "0">>,
      <<"/", "/">> \o HostA \o <<":">>,
      HostA, <<"f", "o", "o">>, <<"m", "e", "o", "w">> }
URLPathTexts ==
    { Segments(k) \o t : k \in 0..MaxSegments, t \in {<<>>, <<"/">>} }
URLQueryTexts ==
    { <<>>, <<"?">>, <<"?", "q">>, <<"?", "q", "/", "r", ":", "s", "?">> }

\* The texts handed to URL::try_from, as the four parts they are made of.
URLInputParts ==
    [scheme : URLSchemeTexts, authority : URLAuthorityTexts,
     path : URLPathTexts, query : URLQueryTexts]
NoParts == [scheme |-> <<>>, authority |-> <<>>, path |-> <<>>, query |-> <<>>]
URLInputs ==
    { s \o a \o p \o q : s \in URLSchemeTexts, a \in URLAuthorityTexts,
                         p \in URLPathTexts, q \in URLQueryTexts }

\* The host names handed to URLBuilder.
BuilderHosts == {HostA, HostC}

NotRun == [st |-> "none", val |-> <<>>]

\* A text for URL::try_from (parts: history, what the text was put together
\* from), or a host name for URLBuilder.
InitURL ==
    /\ urlRun \in
         { [pc |-> "text", via |-> "try_from", parts |-> x,
            text |-> x.scheme \o x.authority \o x.path \o x.query,
            parsed |-> NotRun, serial |-> <<>>, reparsed |-> NotRun] : x \in URLInputParts }
         \cup
         { [pc |-> "host", via |-> "builder", parts |-> NoParts, text |-> h,
            parsed |-> NotRun, serial |-> <<>>, reparsed |-> NotRun] : h \in BuilderHosts }
    /\ disk = NoFile
    /\ tofu_store = <<>>
    /\ conn = <<>>
    /\ store = <<>>
    /\ call = NoCall
    /\ opened = NotOpened
    /\ learned = <<>>
    /\ respRun = Off

\* URL::try_from(text)
ParseURL ==
    /\ urlRun.pc = "text"
    /\ urlRun' = [urlRun EXCEPT !.pc = "parsed", !.parsed = URL_try_from(urlRun.text)]
    /\ UNCHANGED <<disk, tofu_store, conn, store, call, opened, learned, respRun>>

\* URLBuilder::new().host(Host { name, port: DEFAULT_PORT }).build()
BuildURL ==
    /\ urlRun.pc = "host"
    /\ urlRun' = [urlRun EXCEPT !.pc = "parsed",
                     !.parsed = [st |-> "ok",
                                 val |-> URLBuilder_build(URLBuilder_host(
                                             URLBuilder_new,
                                             Host(urlRun.text, DEFAULT_PORT)))]]
    /\ UNCHANGED <<disk, tofu_store, conn, store, call, opened, learned, respRun>>

\* url.to_string() of the URL that came back
SerializeURL ==
    /\ urlRun.pc = "parsed"
    /\ urlRun.parsed.st = "ok"
    /\ urlRun' = [urlRun EXCEPT !.pc = "serial", !.serial = URL_to_string(urlRun.parsed.val)]
    /\ UNCHANGED <<disk, tofu_store, conn, store, call, opened, learned, respRun>>

\* URL::try_from of that text
ReparseURL ==
    /\ urlRun.pc = "serial"
    /\ urlRun' = [urlRun EXCEPT !.pc = "reparsed", !.reparsed = URL_try_from(urlRun.serial)]
    /\ UNCHANGED <<disk, tofu_store, conn, store, call, opened, learned, respRun>>

NextURL == ParseURL \/ BuildURL \/ SerializeURL \/ ReparseURL

SpecURL == InitURL /\ [][NextURL]_vars

\* -------------------------------------------- the response grammar, run

\* How long the prompt, url, information or body of a Response value is at
\* most.
MaxTextLen == 2

TextsUpTo(n) == UNION {[1..k -> {"a", "\r", "\n"}] : k \in 0..n}

\* The Response values handed to to_string.
ResponseValues ==
    { TextResponse(TextVariants[i], t) : i \in 1..Len(TextVariants), t \in TextsUpTo(MaxTextLen) }
    \cup
    { Success(MimeType_new(m, Some(c)), b) :
        m \in {"TextPlain", "TextGemini"}, c \in {"Utf8", "UsAscii"},
        b \in TextsUpTo(MaxTextLen) }

\* The texts handed to Response::try_from: every two-digit token, a
\* one-digit and a three-digit one, with or without the space, a meta, a
\* line end and something after it.
CodeTexts ==
    { <<Digits[i], Digits[j]>> : i \in 1..10, j \in 1..10 }
    \cup { <<"1">>, <<"1", "0", "0">> }
MetaTexts ==
    { <<>>, <<"a">>, T_text_plain, T_text_gemini \o T_charset \o T_us_ascii,
      T_text_plain \o T_charset \o <<"x">>, <<"t", "e", "x", "t", "/", "x">> }
ResponseInputs ==
    { c \o sp \o m \o e \o b :
        c \in CodeTexts, sp \in {<<>>, <<" ">>}, m \in MetaTexts,
        e \in {<<>>, CRLF, <<"\n">>}, b \in {<<>>, <<"b">>} }

InitResponse ==
    /\ respRun \in
         { [pc |-> "value", value |-> Some(v), text |-> <<>>, parsed |-> NotRun] :
             v \in ResponseValues }
         \cup
         { [pc |-> "text", value |-> None, text |-> t, parsed |-> NotRun] :
             t \in ResponseInputs }
    /\ disk = NoFile
    /\ tofu_store = <<>>
    /\ conn = <<>>
    /\ store = <<>>
    /\ call = NoCall
    /\ opened = NotOpened
    /\ learned = <<>>
    /\ urlRun = Off

\* value.to_string()
SerializeResponse ==
    /\ respRun.pc = "value"
    /\ respRun' = [respRun EXCEPT !.pc = "text",
                                  !.text = Response_to_string(Unwrap(respRun.value))]
    /\ UNCHANGED <<disk, tofu_store, conn, store, call, opened, learned, urlRun>>

\* Response::try_from(text)
ParseResponse ==
    /\ respRun.pc = "text"
    /\ respRun' = [respRun EXCEPT !.pc = "parsed", !.parsed = Response_try_from(respRun.text)]
    /\ UNCHANGED <<disk, tofu_store, conn, store, call, opened, learned, urlRun>>

NextResponse == SerializeResponse \/ ParseResponse

SpecResponse == InitResponse /\ [][NextResponse]_vars

\* ------------------------------------------------------------ properties

\* C1, as claimed (SpecStore): verify_or_learn_host(h, f) on a store with no
\* entry for h returns New; after that, every call with (h, f) returns
\* Match, and every call with (h, g), g # f, returns Mismatch and leaves f
\* stored for h.
C1_AsClaimed ==
    call.result # "none" =>
        /\ call.hostname \notin DOMAIN call.prior => call.result = "New"
        /\ (call.hostname \in DOMAIN call.prior /\ call.hostname \in DOMAIN learned) =>
              /\ call.fingerprint = learned[call.hostname] => call.result = "Match"
              /\ call.fingerprint # learned[call.hostname] =>
                    /\ call.result = "Mismatch"
                    /\ store[call.hostname] = learned[call.hostname]

\* C1, amended (SpecStore): verify_or_learn_host(h, f) on a store with no
\* entry for h returns New when save_to_disk reports success and an error
\* when it reports failure; once it has returned New, every later call with
\* (h, f) returns Match, every later call with (h, g), g # f, returns
\* Mismatch, and the fingerprint stored for h is f ever after.
C1_NewThenMatchOrMismatch ==
    /\ call.result # "none" =>
        /\ call.hostname \notin DOMAIN call.prior =>
              /\ call.saved \in {"ok", "flush_lost"} => call.result = "New"
              /\ call.saved \in {"create_err", "write_err"} => call.result = "Err"
        /\ (call.hostname \in DOMAIN call.prior /\ call.hostname \in DOMAIN learned) =>
              /\ call.fingerprint = learned[call.hostname] => call.result = "Match"
              /\ call.fingerprint # learned[call.hostname] => call.result = "Mismatch"
    /\ \A h \in DOMAIN learned : h \in DOMAIN store /\ store[h] = learned[h]

\* C1's case: a host was learned with f and a later call with g # f was
\* answered Mismatch.
C1_Witness ==
    /\ call.result = "Mismatch"
    /\ call.hostname \in DOMAIN learned
    /\ learned[call.hostname] # call.fingerprint
    /\ store[call.hostname] = learned[call.hostname]

\* The handshakes of connections c and d are to the same host.
SameHost(c, d) ==
    /\ IsSome(conn[c].url) /\ IsSome(Unwrap(conn[c].url).host)
    /\ IsSome(conn[d].url) /\ IsSome(Unwrap(conn[d].url).host)
    /\ HostnameOf(c) = HostnameOf(d)

\* C2 (Spec): through one Client, once a handshake to h presenting f has
\* been accepted, a later handshake to h presenting g # f is rejected as
\* Mismatch and never taken as New, and the fingerprint recorded for h, in
\* the verifier's memory and in the file, stays f.
C2_LaterMismatchRejected ==
    \A c \in Conns, d \in Conns :
        ( /\ d \in conn[c].after
          /\ conn[d].established = "Ok"
          /\ conn[c].verdict # "none"
          /\ SameHost(c, d)
          /\ conn[c].presented # conn[d].presented )
        => /\ conn[c].tofu = "Mismatch"
           /\ conn[c].verdict = "reject"
           /\ HostnameOf(c) \in DOMAIN conn[c].verifier
           /\ conn[c].verifier[HostnameOf(c)] = conn[d].presented
           /\ disk.kind = "store" =>
                 /\ HostnameOf(c) \in DOMAIN disk.known_hosts
                 /\ disk.known_hosts[HostnameOf(c)] = conn[d].presented

\* Neither of the calls c and d had returned when the other was made.
Concurrent(c, d) == c # d /\ c \notin conn[d].after /\ d \notin conn[c].after

\* C3 (Spec): of two concurrent handshakes to the same host, one the
\* client's store has never seen, at most one is answered New.
C3_AtMostOneNew ==
    \A c \in Conns, d \in Conns :
        ( /\ Concurrent(c, d)
          /\ SameHost(c, d)
          /\ HostnameOf(c) \notin DOMAIN tofu_store )
        => ~(conn[c].tofu = "New" /\ conn[d].tofu = "New")

\* C4 (SpecStore): when verify_or_learn_host is called for an unknown
\* hostname and the write of the store fails, the call returns an error and
\* the store has no entry for the hostname afterwards.
C4_FailedLearnLeavesNoEntry ==
    ( /\ call.result # "none"
      /\ call.hostname \notin DOMAIN call.prior
      /\ call.saved \in {"create_err", "write_err", "flush_lost"} )
    => /\ call.result = "Err"
       /\ call.hostname \notin DOMAIN store

\* C5 (Spec): the verifier accepts exactly when the store answers Match or
\* New; it rejects when the store answers Mismatch, when the write of the
\* store fails and when the server name is no DNS name; after a rejection
\* establish_tls_connection returns an error and no request is written.
C5_AcceptsOnlyMatchOrNew ==
    \A c \in Conns :
        conn[c].verdict # "none" =>
            /\ conn[c].verdict = "accept" <=> conn[c].tofu \in {"Match", "New"}
            /\ conn[c].tofu = "Mismatch" => conn[c].verdict = "reject"
            /\ conn[c].saved \in {"create_err", "write_err", "flush_lost"} =>
                  conn[c].verdict = "reject"
            /\ ServerName_try_from(HostnameOf(c)) # "DnsName" => conn[c].verdict = "reject"
            /\ conn[c].verdict = "reject" =>
                  /\ conn[c].wire = <<>>
                  /\ conn[c].established # "Ok"
                  /\ conn[c].pc = "closed" => conn[c].established = "FailedToConnectToHost"

\* C6 (Spec): for a request whose serialized URL is longer than 1024 bytes
\* there is no TCP connect, no handshake and no write.
C6_TooLongNeverConnects ==
    \A c \in Conns :
        (IsSome(conn[c].url) /\ Len(URL_to_string(Unwrap(conn[c].url))) > 1024) =>
            /\ ~conn[c].tcp
            /\ conn[c].verdict = "none"
            /\ conn[c].wire = <<>>

\* C7 (Spec): what is written is the serialized URL and CRLF, and it is at
\* most 1024 bytes, CRLF included.
C7_WireAtMost1024 ==
    \A c \in Conns :
        conn[c].wire # <<>> =>
            /\ conn[c].wire = URL_to_string(Unwrap(conn[c].url)) \o CRLF
            /\ Len(conn[c].wire) <= 1024

\* C8 (SpecURL): the text of a URL that URL::try_from yielded parses, and
\* to a URL equal to it in scheme, host name, port, path and query.
C8_RoundTrip ==
    urlRun.pc = "reparsed" =>
        /\ urlRun.reparsed.st = "ok"
        /\ urlRun.reparsed.val = urlRun.parsed.val

\* C9, as claimed (SpecResponse): for every Response v,
\* Response::try_from(v.to_string()) succeeds and equals v.
C9_AsClaimed ==
    (respRun.pc = "parsed" /\ IsSome(respRun.value)) =>
        /\ respRun.parsed.st = "ok"
        /\ respRun.parsed.val = Unwrap(respRun.value)

\* The prompt, url or information of v holds a CRLF.
C9_TextHasCRLF(v) == v.variant # "Success" /\ FindSub(v.text, CRLF) # 0

\* C9, amended (SpecResponse): for every Response v that is a Success, or
\* whose prompt, url or information holds no CRLF,
\* Response::try_from(v.to_string()) succeeds and equals v, the body of a
\* Success unmodified; for a v whose text holds a CRLF it returns an error.
C9_RoundTripWithoutCRLF ==
    (respRun.pc = "parsed" /\ IsSome(respRun.value)) =>
        IF C9_TextHasCRLF(Unwrap(respRun.value))
        THEN respRun.parsed.st = "err"
        ELSE /\ respRun.parsed.st = "ok"
             /\ respRun.parsed.val = Unwrap(respRun.value)

\* C9's case: a Success of charset us-ascii whose body is a CRLF went
\* through to_string and try_from and came back as it was.
C9_Witness ==
    /\ respRun.pc = "parsed"
    /\ IsSome(respRun.value)
    /\ Unwrap(respRun.value) = Success(MimeType_new("TextGemini", Some("UsAscii")), CRLF)
    /\ respRun.parsed.st = "ok"
    /\ respRun.parsed.val = Unwrap(respRun.value)

\* The status codes C10 lists.
C10_Codes ==
    { ToDecimal(n) : n \in {10, 11, 20, 30, 31, 59} \cup (40..44) \cup (50..53) \cup (60..62) }

\* C10 (SpecResponse): Response::try_from returns an error for every input
\* that does not start with one of the listed codes and a space, so for the
\* inputs that start "70 ", "09 " and "100 "; an accepted input yields the
\* variant of its first two characters.
C10_UnknownCodeRejected ==
    respRun.pc = "parsed" =>
        /\ ~( /\ Len(respRun.text) >= 3
              /\ Take(respRun.text, 2) \in C10_Codes
              /\ respRun.text[3] = " " ) => respRun.parsed.st = "err"
        /\ ( \/ starts_with(respRun.text, <<"7", "0", " ">>)
             \/ starts_with(respRun.text, <<"0", "9", " ">>)
             \/ starts_with(respRun.text, <<"1", "0", "0", " ">>) ) => respRun.parsed.st = "err"
        /\ respRun.parsed.st = "ok" =>
              Take(respRun.text, 2) = ToDecimal(ResponseCode(respRun.parsed.val.variant))

\* C10's case: a well-formed line under the code 70 was handed to
\* Response::try_from, which returned an error.
C10_Witness ==
    /\ respRun.pc = "parsed"
    /\ respRun.text = <<"7", "0", " ", "a">> \o CRLF
    /\ respRun.parsed.st = "err"

\* The headers C11 allows after "20 ": a type token, then nothing or
\* ";charset=" and a charset token; with each, the MIME type it stands for.
C11_Headers ==
    { [text |-> ty.text \o cs.text, mime |-> [mime_type |-> ty.is, charset |-> cs.is]] :
        ty \in { [text |-> T_text_plain, is |-> "TextPlain"],
                 [text |-> T_text_gemini, is |-> "TextGemini"] },
        cs \in { [text |-> <<>>, is |-> "Utf8"],
                 [text |-> T_charset \o T_utf8, is |-> "Utf8"],
                 [text |-> T_charset \o T_us_ascii, is |-> "UsAscii"] } }

\* C11 (SpecResponse): a text that starts "20 " parses exactly when it goes
\* on with a known type token, optionally ";charset=" and a known charset
\* token, and CRLF; the result is Success with that type, that charset
\* (utf-8 when there is none) and everything after that CRLF as the body.
C11_SuccessHeader ==
    (respRun.pc = "parsed" /\ starts_with(respRun.text, <<"2", "0", " ">>)) =>
        LET rest == Drop(respRun.text, 3)
            fits == { h \in C11_Headers : starts_with(rest, h.text \o CRLF) }
        IN  /\ respRun.parsed.st = "ok" <=> fits # {}
            /\ \A h \in fits :
                  respRun.parsed.val = Success(h.mime, Drop(rest, Len(h.text) + 2))

\* C11's case: a Success line without a charset, and a body, was parsed.
C11_Witness ==
    /\ respRun.pc = "parsed"
    /\ respRun.text = <<"2", "0", " ">> \o T_text_plain \o CRLF \o <<"b">>
    /\ respRun.parsed.st = "ok"
    /\ respRun.parsed.val = Success(MimeType_new("TextPlain", None), <<"b">>)

\* URL::try_from was given a text and has returned.
URLParsed == urlRun.via = "try_from" /\ urlRun.pc # "text"

\* C12 (SpecURL): of a text with no scheme and no "//", the leading segment
\* is taken as the host, at port 1965 and with the rest as the path ("/"
\* if none), only if it has a dot; a leading segment without one does not
\* become a host.
C12_BareHostNeedsDot ==
    ( /\ URLParsed
      /\ urlRun.parsed.st = "ok"
      /\ urlRun.parts.scheme = <<>>
      /\ urlRun.parts.authority # <<>>
      /\ ~starts_with(urlRun.parts.authority, <<"/", "/">>) )
    => IF FindSub(urlRun.parts.authority, <<".">>) # 0
       THEN /\ urlRun.parsed.val.host = Some(Host(urlRun.parts.authority, 1965))
            /\ urlRun.parsed.val.path =
                  IF urlRun.parts.path = <<>> THEN <<"/">> ELSE urlRun.parts.path
       ELSE urlRun.parsed.val.host = None

\* C13 (SpecURL): URL::try_from never panics, and on a text whose port is
\* 70000 it returns an error.
C13_PortOverflowIsError ==
    /\ urlRun.parsed.st # "panic"
    /\ urlRun.reparsed.st # "panic"
    /\ ( /\ URLParsed
         /\ urlRun.parts.scheme \in {<<>>, T_gemini \o <<":">>, T_about \o <<":">>}
         /\ urlRun.parts.authority = <<"/", "/">> \o HostA \o <<":", "7", "0", "0", "0", "0">> )
       => urlRun.parsed.st = "err"

\* C14 (SpecURL): URL::try_from returns an error whenever the four parsers
\* leave input unconsumed, and so on every text that starts "nooo:"; what
\* it returns then holds no URL.
C14_TrailingInputIsError ==
    URLParsed =>
        /\ (URL_url(urlRun.text).st = "ok" /\ URL_url(urlRun.text).rest # <<>>) =>
              urlRun.parsed = [st |-> "err", val |-> <<>>]
        /\ starts_with(urlRun.text, <<"n", "o", "o", "o", ":">>) =>
              urlRun.parsed = [st |-> "err", val |-> <<>>]

\* C14's case: "nooo://a.b", of which the parsers match "nooo" and leave
\* "://a.b", was handed to URL::try_from, which returned an error.
C14_Witness ==
    /\ URLParsed
    /\ urlRun.text = <<"n", "o", "o", "o", ":", "/", "/">> \o HostA
    /\ URL_url(urlRun.text).st = "ok"
    /\ URL_url(urlRun.text).rest = <<":", "/", "/">> \o HostA
    /\ urlRun.parsed.st = "err"

\* What a URL has for path when raw is the text of its path.
C15_PathOr(raw) == IF raw = <<>> THEN <<"/">> ELSE raw

\* C15 (SpecURL): a URL built from a host alone is gemini, port 1965, path
\* "/", no query.  A URL parsed from a text has scheme Gemini unless the
\* text says about, port 1965 unless the text gives one, the path of the
\* text or "/" for an empty one, and the query of the text or none;
\* "gemini://a.b/p?q" gives host a.b, port 1965, path "/p", query "q".
C15_Defaults ==
    urlRun.parsed.st = "ok" =>
        LET u == urlRun.parsed.val
            x == urlRun.parts
        IN  IF urlRun.via = "builder"
            THEN u = URL("Gemini", Some(Host(urlRun.text, 1965)), <<"/">>, None)
            ELSE /\ u.scheme = IF x.scheme = T_about \o <<":">> THEN "About" ELSE "Gemini"
                 /\ IsSome(u.host) =>
                       Unwrap(u.host).port =
                           IF x.authority = <<"/", "/">> \o HostA \o <<":", "7">>
                           THEN 7 ELSE 1965
                 /\ u.path = C15_PathOr(IF IsSome(u.host) THEN x.path
                                         ELSE x.authority \o x.path)
                 /\ u.query = IF x.query = <<>> THEN None ELSE Some(Drop(x.query, 1))
                 /\ urlRun.text = T_gemini \o <<":", "/", "/">> \o HostA \o <<"/", "p", "?", "q">>
                       => u = URL("Gemini", Some(Host(HostA, 1965)), <<"/", "p">>, Some(<<"q">>))

\* C15's case: "gemini://a.b/p?q" was parsed, to a URL with the default
\* port.
C15_Witness ==
    /\ URLParsed
    /\ urlRun.text = T_gemini \o <<":", "/", "/">> \o HostA \o <<"/", "p", "?", "q">>
    /\ urlRun.parsed.st = "ok"
    /\ Unwrap(urlRun.parsed.val.host).port = 1965

\* C19 (SpecURL): the text of a URL whose host has port 1965 has no port in
\* it; the text of a URL with another port has that port.
C19_DefaultPortOmitted ==
    ( /\ urlRun.pc \in {"serial", "reparsed"}
      /\ IsSome(urlRun.parsed.val.host) )
    => LET host == Unwrap(urlRun.parsed.val.host)
           upto == T_gemini \o <<":", "/", "/">> \o host.name
       IN  IF host.port = 1965
           THEN /\ FindSub(urlRun.serial, <<":", "1", "9", "6", "5">>) = 0
                /\ starts_with(urlRun.serial, upto \o <<"/">>)
           ELSE starts_with(urlRun.serial, upto \o <<":">> \o ToDecimal(host.port) \o <<"/">>)

\* C16 (SpecStore): TofuStore::new(path) gives an empty store when there
\* is no file, the mapping of the file when it is well-formed, and no store
\* at all when the file does not parse; a path that does not end in .json
\* gets an error.
C16_NewLoadsOrFails ==
    opened.result # "none" =>
        IF ~opened.ends_with_json THEN opened.result = "Err"
        ELSE CASE opened.file.kind = "none" ->
                    opened.result = "Ok" /\ opened.known_hosts = <<>>
               [] opened.file.kind = "store" ->
                    opened.result = "Ok" /\ opened.known_hosts = opened.file.known_hosts
               [] opened.file.kind = "truncated" ->
                    opened.result \in {"Err", "Panic"}

\* C16's case: TofuStore::new was called on a file that does not parse.
C16_Witness ==
    /\ opened.ends_with_json
    /\ opened.file.kind = "truncated"
    /\ opened.result = "Panic"
    /\ store = <<>>

\* The kind of failure connection c ended with: "trust" for a handshake the
\* verifier rejected, "transport" for a failed connect, write or read,
\* "parse" for a response that did not parse.
C17_Kind(c) ==
    CASE conn[c].cause = "trust" -> "trust"
      [] conn[c].cause \in {"tcp", "write", "read"} -> "transport"
      [] conn[c].cause = "parse" -> "parse"
      [] OTHER -> "other"

\* The ClientError variant returned for connection c.
C17_Variant(c) ==
    IF conn[c].established \notin {"none", "Ok"} THEN conn[c].established ELSE conn[c].sent

\* C17 (Spec): failures of two different kinds among trust, transport and
\* parse never come back as the same ClientError variant.
C17_KindsToldApart ==
    \A c \in Conns, d \in Conns :
        ( /\ C17_Kind(c) # "other"
          /\ C17_Kind(d) # "other"
          /\ C17_Kind(c) # C17_Kind(d) )
        => C17_Variant(c) # C17_Variant(d)

\* The codes whose responses carry no body.
C18_Codes == C10_Codes \ {<<"2", "0">>}

\* C18 (SpecResponse): after a code that carries no body and a space, a
\* text is accepted exactly when its first CRLF is its end; the text of the
\* response is then what stands before that CRLF.
C18_OneLineOnly ==
    ( /\ respRun.pc = "parsed"
      /\ Len(respRun.text) >= 3
      /\ Take(respRun.text, 2) \in C18_Codes
      /\ respRun.text[3] = " " )
    => LET rest == Drop(respRun.text, 3)
           i == FindSub(rest, CRLF)
       IN  /\ respRun.parsed.st = "ok" <=> (i # 0 /\ i + 1 = Len(rest))
           /\ respRun.parsed.st = "ok" =>
                 respRun.parsed.val.text = Take(rest, Len(rest) - 2)
           /\ respRun.parsed.st # "ok" => respRun.parsed.st = "err"

\* C18's case: a line under the code 10 with a character after its CRLF
\* was handed to Response::try_from, which returned an error.
C18_Witness ==
    /\ respRun.pc = "parsed"
    /\ respRun.text = <<"1", "0", " ", "a">> \o CRLF \o <<"b">>
    /\ respRun.parsed.st = "err"

\* C20 (SpecStore): when verify_or_learn_host returns New the file holds
\* the store's mapping; when it returns Match or Mismatch the mapping and
\* the file are as they were before the call.
C20_WrittenThrough ==
    /\ call.result = "New" => disk = StoreFile(store)
    /\ call.result \in {"Match", "Mismatch"} => (store = call.prior /\ disk = call.file)

\* C21 (Spec): when two handshakes made one after the other through one
\* Client, to two different hosts the client's store had never seen, were
\* both answered New and accepted, and both writes of the file succeeded,
\* the file holds the entry of each of the two hosts: writing the whole
\* store for the later host does not remove the earlier host's entry.
C21_EarlierEntryKept ==
    \A c \in Conns, d \in Conns :
        ( /\ d \in conn[c].after
          /\ conn[c].established = "Ok" /\ conn[d].established = "Ok"
          /\ conn[c].tofu = "New" /\ conn[d].tofu = "New"
          /\ conn[c].saved = "ok" /\ conn[d].saved = "ok"
          /\ HostnameOf(c) # HostnameOf(d) )
        => /\ disk.kind = "store"
           /\ \A e \in {c, d} :
                 /\ HostnameOf(e) \in DOMAIN disk.known_hosts
                 /\ disk.known_hosts[HostnameOf(e)] = conn[e].presented

====
